---- MODULE Spec2Model ----
(***************************************************************************)
(* Data-access and request-lifecycle boundary of the sensor_readings API:  *)
(* the scoped connection managers (database/utils.py, api/routes.py), the  *)
(* fixed query, the row mapping and the HTTP error translation.            *)
(*                                                                         *)
(* Python values are modelled as follows.  A tuple is a sequence of        *)
(* integers (row[0] is cols[1]).  A list element is a record               *)
(* [tuple |-> BOOLEAN, cols |-> sequence]: tuple = FALSE stands for an     *)
(* object without len().  A list argument is a record                      *)
(* [iterable |-> BOOLEAN, items |-> sequence of elements]: iterable =      *)
(* FALSE stands for an argument that cannot be iterated (None).            *)
(* None is the string "None"; "no connection" (conn = None) is 0.          *)
(***************************************************************************)
EXTENDS Integers, Sequences, FiniteSets, TLC

VARIABLES
    env,     \* value of the DATABASE_PATH environment variable, or None
    store,   \* per path: what is on disk there
    table,   \* rows of sensor_readings in a store that has the table
    conns,   \* every connection opened so far, by connection id
    ops,     \* the logical operations (requests and data-access calls)
    data,    \* argument of a direct call of the row mapping functions
    out      \* outcome of that call

vars == <<env, store, table, conns, ops, data, out>>

----------------------------------------------------------------------------
(* Bounds *)

NumOps == 2        \* concurrent logical operations
MaxRows == 2       \* rows of sensor_readings in the store
MaxLegacy == 1     \* connections opened through connect_to_database
Slack == 1         \* widest row is NCols + Slack columns
MaxLen == 3        \* length of a list handed directly to the mapping
MaxSeed == 2       \* distinct rows of one width in such a list

(* Program constants *)

NCols == 4         \* "if len(row) >= 4"

None == "None"
NoConn == 0
DefaultPath == "my_geospatial_data.duckdb"
EnvPath == "env.duckdb"
ArgPath == "arg.duckdb"
Paths == {DefaultPath, EnvPath, ArgPath}

Ops == 1..NumOps
Widths == (NCols - 1)..(NCols + Slack)

----------------------------------------------------------------------------
(* Rows and lists *)

\* A row of w columns whose values differ by position and by seed.
Row(s, w) == [j \in 1..w |-> 10 * s + j]

Tuple(cols) == [tuple |-> TRUE, cols |-> cols]
Scalar == [tuple |-> FALSE, cols |-> <<>>]
List(items) == [iterable |-> TRUE, items |-> items]
NotIterable == [iterable |-> FALSE, items |-> <<>>]

\* sensor_readings with n rows of w columns, in the order the store yields them
TableOf(w, n) == [i \in 1..n |-> Row(i, w)]

Tables == {TableOf(w, n) : w \in Widths, n \in 0..MaxRows}

\* cursor.fetchall(): a list of tuples, one per row, in the store's order
FetchAll(rows) == List([i \in 1..Len(rows) |-> Tuple(rows[i])])

----------------------------------------------------------------------------
(* Exceptions *)

\* Classes caught by "except Exception"
Exceptions == {"IOException", "CatalogException", "ConnectionException",
               "IndexError", "TypeError", "ValueError"}
\* asyncio.CancelledError derives from BaseException only
Cancelled == "CancelledError"

IsException(e) == e \in Exceptions

\* str(e): the text of the exception
Str(e) ==
    CASE e = "IOException" -> "IO Error: Cannot open file"
      [] e = "CatalogException" -> "Catalog Error: Table with name sensor_readings does not exist!"
      [] e = "ConnectionException" -> "Connection Error: Connection already closed!"
      [] e = "IndexError" -> "tuple index out of range"
      [] e = "TypeError" -> "object has no len()"
      [] e = "ValueError" -> "Error processing data: "
      [] OTHER -> ""

Ok(v) == [exc |-> None, value |-> v]
Raise(e) == [exc |-> e, value |-> <<>>]

----------------------------------------------------------------------------
(* Path resolution *)

ResolveDbPathEnvFirst(db_path, envv) ==
    IF envv # None THEN envv
    ELSE IF db_path # None THEN db_path ELSE DefaultPath

\* utils.get_database_connection: the argument, else DATABASE_PATH, else the default
ResolveDbPath(db_path, envv) ==
    IF db_path = None
    THEN (IF envv # None THEN envv ELSE DefaultPath)
    ELSE db_path

\* routes.get_db_connection: DATABASE_PATH, else the default
GetenvDatabasePath(envv) == IF envv # None THEN envv ELSE DefaultPath

----------------------------------------------------------------------------
(* Row mapping *)

MakeRecordSwapped(row) ==
    IF ~row.tuple THEN Raise("TypeError")
    ELSE IF Len(row.cols) < 4 THEN Raise("IndexError")
    ELSE Ok([id |-> row.cols[1], latitude |-> row.cols[3],
             longitude |-> row.cols[2], value |-> row.cols[4]])

\* {"id": row[0], "latitude": row[1], "longitude": row[2], "value": row[3]}
MakeRecord(row) ==
    IF ~row.tuple THEN Raise("TypeError")
    ELSE IF Len(row.cols) < 4 THEN Raise("IndexError")
    ELSE Ok([id |-> row.cols[1], latitude |-> row.cols[2],
             longitude |-> row.cols[3], value |-> row.cols[4]])

HasEnoughColumnsStrict(n) == n > NCols

\* "if len(row) >= 4"
HasEnoughColumns(n) == n >= NCols

RECURSIVE ProcessLoop(_, _)
ProcessLoop(items, acc) ==
    IF items = <<>> THEN Ok(acc)
    ELSE LET row == Head(items) IN
         IF ~row.tuple THEN Raise("TypeError")
         ELSE IF HasEnoughColumns(Len(row.cols))
         THEN LET r == MakeRecord(row) IN
              IF r.exc # None THEN r
              ELSE ProcessLoop(Tail(items), Append(acc, r.value))
         ELSE ProcessLoop(Tail(items), acc)

\* utils.process_data
ProcessData(d) ==
    LET r == IF d.iterable THEN ProcessLoop(d.items, <<>>) ELSE Raise("TypeError")
    IN  IF r.exc \in {"IndexError", "TypeError"} THEN Raise("ValueError") ELSE r

RECURSIVE MapRowsLoop(_, _)
MapRowsLoop(items, acc) ==
    IF items = <<>> THEN Ok(acc)
    ELSE LET r == MakeRecord(Head(items)) IN
         IF r.exc # None THEN r
         ELSE MapRowsLoop(Tail(items), Append(acc, r.value))

\* the list comprehension of routes.get_data
MapRows(d) == IF d.iterable THEN MapRowsLoop(d.items, <<>>) ELSE Raise("TypeError")

----------------------------------------------------------------------------
(* Connections and the store *)

\* duckdb.connect(path) raises when the file cannot be opened (corrupted, locked)
CanOpen(st) == st # "unopenable"

\* duckdb.connect(path) without read_only creates the database file when there
\* is none (generate_duckdb_data.py relies on it): the new store has no tables
AfterConnect(st) == IF st = "missing" THEN "empty" ELSE st

NewConn(path, scoped, owner) ==
    [path |-> path, open |-> TRUE, closes |-> 0, scoped |-> scoped,
     owner |-> owner, users |-> {}]

\* conn.close()
Closed(c) == [c EXCEPT !.open = FALSE, !.closes = @ + 1]

ExecuteFetchAllValueError(c) ==
    IF ~conns[c].open THEN Raise("ConnectionException")
    ELSE IF store[conns[c].path] # "table" THEN Raise("ValueError")
    ELSE Ok(FetchAll(table))

\* conn.execute("SELECT * FROM sensor_readings").fetchall() on connection c
ExecuteFetchAll(c) ==
    IF ~conns[c].open THEN Raise("ConnectionException")
    ELSE IF store[conns[c].path] # "table" THEN Raise("CatalogException")
    ELSE Ok(FetchAll(table))

\* "if conn:" in the except and finally clauses of both context managers
Truthy(c) == c # NoConn

----------------------------------------------------------------------------
(* Operations *)

IdleOp ==
    [kind |-> None, pc |-> "idle", db_path |-> None, connection |-> NoConn,
     path |-> None, seen |-> None, conn |-> NoConn, exc |-> None, cause |-> None,
     result |-> <<>>, status |-> 0, detail |-> <<>>, connects |-> 0,
     noneClose |-> FALSE]

Scoped(o) == ops[o].kind \in {"get_data", "get_sensor_readings", "fetch_geospatial_data"}
                /\ ops[o].connection = NoConn

Set(o, r) == ops' = [ops EXCEPT ![o] = r]

ConnectPooled(o, kind, db_path, path) ==
    /\ ops[o].pc = "idle"
    /\ LET pool == {c \in DOMAIN conns : conns[c].open /\ conns[c].path = path} IN
       IF pool # {}
       THEN /\ Set(o, [ops[o] EXCEPT !.kind = kind, !.db_path = db_path,
                                     !.path = path, !.seen = store[path],
                                     !.conn = CHOOSE c \in pool : TRUE,
                                     !.connects = @ + 1, !.pc = "yield"])
            /\ UNCHANGED <<store, conns>>
       ELSE IF CanOpen(store[path])
       THEN /\ store' = [store EXCEPT ![path] = AfterConnect(@)]
            /\ conns' = Append(conns, NewConn(path, TRUE, o))
            /\ Set(o, [ops[o] EXCEPT !.kind = kind, !.db_path = db_path,
                                     !.path = path, !.seen = store[path],
                                     !.conn = Len(conns) + 1,
                                     !.connects = @ + 1, !.pc = "yield"])
       ELSE /\ Set(o, [ops[o] EXCEPT !.kind = kind, !.db_path = db_path,
                                     !.path = path, !.seen = store[path],
                                     !.connects = @ + 1,
                                     !.exc = "IOException", !.cause = "open",
                                     !.pc = "except"])
            /\ UNCHANGED <<store, conns>>
    /\ UNCHANGED <<env, table, data, out>>

\* Entering the context manager: duckdb.connect(path), then the yield; a
\* failure of connect is raised inside the try, with conn still None
Connect(o, kind, db_path, path) ==
    /\ ops[o].pc = "idle"
    /\ IF CanOpen(store[path])
       THEN /\ store' = [store EXCEPT ![path] = AfterConnect(@)]
            /\ conns' = Append(conns, NewConn(path, TRUE, o))
            /\ Set(o, [ops[o] EXCEPT !.kind = kind, !.db_path = db_path,
                                     !.path = path, !.seen = store[path], !.conn = Len(conns) + 1,
                                     !.connects = @ + 1, !.pc = "yield"])
       ELSE /\ Set(o, [ops[o] EXCEPT !.kind = kind, !.db_path = db_path,
                                     !.path = path, !.seen = store[path], !.connects = @ + 1,
                                     !.exc = "IOException", !.cause = "open",
                                     !.pc = "except"])
            /\ UNCHANGED <<store, conns>>
    /\ UNCHANGED <<env, table, data, out>>

\* An inbound GET /data/sensor_readings enters routes.get_data, which enters
\* get_db_connection()
GetData(o) == Connect(o, "get_data", None, GetenvDatabasePath(env))

\* utils.get_sensor_readings(db_path) is called: fetch_geospatial_data(db_path=db_path)
GetSensorReadings(o, db_path) ==
    Connect(o, "get_sensor_readings", db_path, ResolveDbPath(db_path, env))

\* utils.fetch_geospatial_data(db_path=db_path) is called without a connection
FetchGeospatialData(o, db_path) ==
    Connect(o, "fetch_geospatial_data", db_path, ResolveDbPath(db_path, env))

\* utils.connect_to_database(db_path): a connection handed to the caller
ConnectToDatabase(db_path) ==
    /\ Cardinality({c \in DOMAIN conns : ~conns[c].scoped}) < MaxLegacy
    /\ CanOpen(store[db_path])
    /\ store' = [store EXCEPT ![db_path] = AfterConnect(@)]
    /\ conns' = Append(conns, NewConn(db_path, FALSE, 0))
    /\ UNCHANGED <<env, table, ops, data, out>>

\* utils.fetch_geospatial_data(connection=c): the whole call, on a connection
\* the caller holds (the connection of a with block is a local of that block
\* and reaches no caller), which is neither opened nor closed here
FetchWithConnection(o, c) ==
    /\ ops[o].pc = "idle"
    /\ c \in DOMAIN conns
    /\ ~conns[c].scoped
    /\ LET r == ExecuteFetchAll(c) IN
       /\ Set(o, [ops[o] EXCEPT !.kind = "fetch_geospatial_data", !.pc = "done",
                                !.connection = c, !.exc = r.exc,
                                !.cause = IF r.exc = None THEN None ELSE "query",
                                !.result = r.value])
       /\ conns' = [conns EXCEPT ![c].users = @ \cup {o}]
    /\ UNCHANGED <<env, store, table, data, out>>

\* The body of the with block: the query, and in get_data the row mapping
Execute(o) ==
    /\ ops[o].pc = "yield"
    /\ LET c == ops[o].conn
           q == ExecuteFetchAll(c)
           m == IF q.exc = None /\ ops[o].kind = "get_data" THEN MapRows(q.value) ELSE q
       IN  /\ conns' = [conns EXCEPT ![c].users = @ \cup {o}]
           /\ IF m.exc = None
              THEN Set(o, [ops[o] EXCEPT !.result = m.value, !.pc = "finally"])
              ELSE Set(o, [ops[o] EXCEPT !.exc = m.exc,
                                         !.cause = IF q.exc = None THEN "mapping" ELSE "query",
                                         !.pc = "except"])
    /\ UNCHANGED <<env, store, table, data, out>>

\* The request is cancelled while the with block is running: a BaseException
\* that "except Exception" does not catch
Cancel(o) ==
    /\ ops[o].pc = "yield"
    /\ Set(o, [ops[o] EXCEPT !.exc = Cancelled, !.cause = "cancel", !.pc = "finally"])
    /\ UNCHANGED <<env, store, table, conns, data, out>>

\* "if conn: conn.close()", then control moves on to pc.  Calling close on
\* None (only possible were the guard absent) is recorded in noneClose.
ReleaseThen(o, pc) ==
    LET c == ops[o].conn IN
    IF Truthy(c) /\ c # NoConn
    THEN /\ conns' = [conns EXCEPT ![c] = Closed(@)]
         /\ Set(o, [ops[o] EXCEPT !.pc = pc])
    ELSE /\ Set(o, [ops[o] EXCEPT !.pc = pc, !.noneClose = @ \/ Truthy(c)])
         /\ UNCHANGED conns

\* "except Exception as e: if conn: conn.close(); raise e"
ExceptClause(o) ==
    /\ ops[o].pc = "except"
    /\ ReleaseThen(o, "finally")
    /\ UNCHANGED <<env, store, table, data, out>>

FinallyClauseNoClose(o) ==
    /\ ops[o].pc = "finally"
    /\ Set(o, [ops[o] EXCEPT !.pc = "exit"])
    /\ UNCHANGED <<env, store, table, conns, data, out>>

\* "finally: if conn: conn.close()", run on every way out of the generator
FinallyClause(o) ==
    /\ ops[o].pc = "finally"
    /\ ReleaseThen(o, "exit")
    /\ UNCHANGED <<env, store, table, data, out>>

GetDataRespondBare(o) ==
    /\ ops[o].pc = "exit"
    /\ ops[o].kind = "get_data"
    /\ LET e == ops[o].exc IN
       Set(o, IF e = None THEN [ops[o] EXCEPT !.status = 200, !.pc = "done"]
              ELSE IF IsException(e)
              THEN [ops[o] EXCEPT !.status = 500, !.pc = "done",
                                  !.detail = <<"Database error">>]
              ELSE [ops[o] EXCEPT !.pc = "done"])
    /\ UNCHANGED <<env, store, table, conns, data, out>>

\* Back in get_data: the list is returned (200), or "except Exception" turns
\* the exception into HTTPException(500); a BaseException passes through
GetDataRespond(o) ==
    /\ ops[o].pc = "exit"
    /\ ops[o].kind = "get_data"
    /\ LET e == ops[o].exc IN
       Set(o, IF e = None THEN [ops[o] EXCEPT !.status = 200, !.pc = "done"]
              ELSE IF IsException(e)
              THEN [ops[o] EXCEPT !.status = 500, !.pc = "done",
                                  !.detail = <<"Database error: ", Str(e)>>]
              ELSE [ops[o] EXCEPT !.pc = "done"])
    /\ UNCHANGED <<env, store, table, conns, data, out>>

\* Back in fetch_geospatial_data: the rows are returned or the exception leaves
FetchReturn(o) ==
    /\ ops[o].pc = "exit"
    /\ ops[o].kind = "fetch_geospatial_data"
    /\ Set(o, [ops[o] EXCEPT !.pc = "done"])
    /\ UNCHANGED <<env, store, table, conns, data, out>>

\* Back in get_sensor_readings: process_data(raw_data), unless the fetch raised
GetSensorReadingsReturn(o) ==
    /\ ops[o].pc = "exit"
    /\ ops[o].kind = "get_sensor_readings"
    /\ IF ops[o].exc # None
       THEN Set(o, [ops[o] EXCEPT !.pc = "done"])
       ELSE LET r == ProcessData(ops[o].result) IN
            Set(o, [ops[o] EXCEPT !.pc = "done", !.exc = r.exc, !.result = r.value,
                                  !.cause = IF r.exc = None THEN None ELSE "mapping"])
    /\ UNCHANGED <<env, store, table, conns, data, out>>

\* Arguments of a direct call of process_data by a caller that holds a list
DirectInputs ==
    {NotIterable,
     List(<<Tuple(Row(1, NCols)), Scalar>>),
     List(<<Tuple(Row(1, NCols)), Tuple(Row(2, NCols)), Tuple(Row(3, NCols - 1))>>)}

\* utils.process_data(d) called directly
ProcessDataCall(o, d) ==
    /\ ops[o].pc = "idle"
    /\ LET r == ProcessData(d) IN
       Set(o, [ops[o] EXCEPT !.kind = "process_data", !.pc = "done", !.exc = r.exc,
                             !.result = r.value,
                             !.cause = IF r.exc = None THEN None ELSE "mapping"])
    /\ UNCHANGED <<env, store, table, conns, data, out>>

----------------------------------------------------------------------------
(* The system: concurrent operations over the stores *)

NoOut == [fn |-> None, exc |-> None, value |-> <<>>]

\* Paths handed to connect_to_database by its callers
LegacyPaths == {ArgPath}

\* The paths an operation can resolve to under the environment e
Reachable(e) == {ArgPath, GetenvDatabasePath(e)}

StoreStates == {"missing", "unopenable", "empty", "table"}

\* Any environment, any state of the stores an operation can reach (the other
\* path, never opened, is left missing) and any content of sensor_readings
\* (left empty when no store holds the table)
Init ==
    /\ env \in {None, EnvPath}
    /\ store \in [Paths -> StoreStates]
    /\ \A p \in Paths \ Reachable(env) : store[p] = "missing"
    /\ table \in Tables
    /\ (\A p \in Paths : store[p] # "table") => table = <<>>
    /\ conns = <<>>
    /\ ops = [o \in Ops |-> IdleOp]
    /\ data = NotIterable
    /\ out = NoOut

Next ==
    \/ \E o \in Ops : GetData(o)
    \/ \E o \in Ops, p \in {None, ArgPath} : GetSensorReadings(o, p)
    \/ \E o \in Ops, p \in {None, ArgPath} : FetchGeospatialData(o, p)
    \/ \E p \in LegacyPaths : ConnectToDatabase(p)
    \/ \E o \in Ops, c \in DOMAIN conns : FetchWithConnection(o, c)
    \/ \E o \in Ops : Execute(o)
    \/ \E o \in Ops : Cancel(o)
    \/ \E o \in Ops : ExceptClause(o)
    \/ \E o \in Ops : FinallyClause(o)
    \/ \E o \in Ops : GetDataRespond(o)
    \/ \E o \in Ops : FetchReturn(o)
    \/ \E o \in Ops : GetSensorReadingsReturn(o)
    \/ \E o \in Ops, d \in DirectInputs : ProcessDataCall(o, d)

Spec == Init /\ [][Next]_vars

----------------------------------------------------------------------------
(* The row mapping functions alone, over any list *)

RowWidths == 0..(NCols + Slack)

Items == {Tuple(Row(s, w)) : s \in 1..MaxSeed, w \in RowWidths} \cup {Scalar}

RECURSIVE SeqsUpTo(_, _)
SeqsUpTo(S, n) ==
    IF n = 0 THEN {<<>>}
    ELSE LET shorter == SeqsUpTo(S, n - 1) IN
         shorter \cup {Append(q, x) : q \in {r \in shorter : Len(r) = n - 1}, x \in S}

DataLists == {List(q) : q \in SeqsUpTo(Items, MaxLen)} \cup {NotIterable}

InitRows ==
    /\ env = None
    /\ store = [p \in Paths |-> "missing"]
    /\ table = <<>>
    /\ conns = <<>>
    /\ ops = [o \in Ops |-> IdleOp]
    /\ data \in DataLists
    /\ out = NoOut

\* process_data(data)
CallProcessData ==
    /\ out.fn = None
    /\ LET r == ProcessData(data) IN
       out' = [fn |-> "process_data", exc |-> r.exc, value |-> r.value]
    /\ UNCHANGED <<env, store, table, conns, ops, data>>

\* the comprehension of get_data over data
CallMapRows ==
    /\ out.fn = None
    /\ LET r == MapRows(data) IN
       out' = [fn |-> "get_data", exc |-> r.exc, value |-> r.value]
    /\ UNCHANGED <<env, store, table, conns, ops, data>>

NextRows == CallProcessData \/ CallMapRows

SpecRows == InitRows /\ [][NextRows]_vars

----------------------------------------------------------------------------
(* Properties *)

Finished(o) == ops[o].pc \in {"exit", "done"}

\* The operation went through scoped acquisition and duckdb.connect succeeded
Acquired(o) == Scoped(o) /\ ops[o].conn # NoConn

\* The record the specification expects for a row of at least four columns
RecordOf(cols) ==
    [id |-> cols[1], latitude |-> cols[2], longitude |-> cols[3], value |-> cols[4]]

IsLong(item) == Len(item.cols) >= 4

\* C1: a connection obtained by scoped acquisition is closed exactly once over
\* the whole operation, whether the block returned or raised.
C1_ReleasedExactlyOnce ==
    \A o \in Ops :
        Finished(o) /\ Acquired(o) => conns[ops[o].conn].closes = 1

\* C2: process_data keeps, in order, exactly the rows of at least four
\* columns and raises nothing when the list holds tuples only, however many of
\* them are short.
C2_ShortRowsDropped ==
    (out.fn = "process_data" /\ data.iterable
        /\ \A i \in 1..Len(data.items) : data.items[i].tuple)
    => LET long == SelectSeq(data.items, IsLong) IN
       /\ out.exc = None
       /\ Len(out.value) = Len(long)
       /\ \A k \in 1..Len(long) : out.value[k] = RecordOf(long[k].cols)

\* the specification's example: two rows of four columns, then a short row
C2_Witness ==
    /\ out.fn = "process_data"
    /\ data = List(<<Tuple(Row(1, 4)), Tuple(Row(2, 4)), Tuple(Row(1, 3))>>)
    /\ out.exc = None
    /\ out.value = <<RecordOf(Row(1, 4)), RecordOf(Row(2, 4))>>

\* C3: get_data over a store that opens and holds sensor_readings answers 200
\* with one record per row of at least four columns; short rows are left out.
C3_GetDataDropsShortRows ==
    \A o \in Ops :
        (ops[o].kind = "get_data" /\ ops[o].pc = "done" /\ Acquired(o)
            /\ store[ops[o].path] = "table" /\ ops[o].exc # Cancelled)
        => LET long == SelectSeq(FetchAll(table).items, IsLong) IN
           /\ ops[o].status = 200
           /\ Len(ops[o].result) = Len(long)
           /\ \A k \in 1..Len(long) : ops[o].result[k] = RecordOf(long[k].cols)

\* C4: over a store whose sensor_readings holds N rows of four columns,
\* get_sensor_readings returns N records in the store's order, the i-th built
\* from positions 0..3 of the i-th row.
C4_OneRecordPerRow ==
    \A o \in Ops :
        (ops[o].kind = "get_sensor_readings" /\ ops[o].pc = "done" /\ Acquired(o)
            /\ store[ops[o].path] = "table" /\ ops[o].exc # Cancelled
            /\ \A i \in 1..Len(table) : Len(table[i]) = 4)
        => /\ ops[o].exc = None
           /\ Len(ops[o].result) = Len(table)
           /\ \A i \in 1..Len(table) :
                 /\ ops[o].result[i].id = table[i][1]
                 /\ ops[o].result[i].latitude = table[i][2]
                 /\ ops[o].result[i].longitude = table[i][3]
                 /\ ops[o].result[i].value = table[i][4]

C4_Witness ==
    \E o \in Ops :
        /\ ops[o].kind = "get_sensor_readings" /\ ops[o].pc = "done"
        /\ table = TableOf(4, 2)
        /\ Len(ops[o].result) = 2

\* C5: a get_data that ends in an exception answers 500 with a detail holding
\* the text of that exception; the only statuses are 200 and 500 (none when the
\* request was cancelled), and the store is opened at most once per request.
C5_FailuresBecome500 ==
    \A o \in Ops :
        (ops[o].kind = "get_data" /\ ops[o].pc = "done")
        => /\ ops[o].status \in {0, 200, 500}
           /\ ops[o].status = 0 <=> ops[o].exc = Cancelled
           /\ ops[o].status = 200 <=> ops[o].exc = None
           /\ IsException(ops[o].exc)
                => /\ ops[o].status = 500
                   /\ Str(ops[o].exc) # ""
                   /\ \E k \in 1..Len(ops[o].detail) : ops[o].detail[k] = Str(ops[o].exc)
           /\ ops[o].connects = 1

\* a request whose query failed, answered 500 with the text of the query's
\* exception in the detail
C5_Witness ==
    \E o \in Ops :
        /\ ops[o].kind = "get_data" /\ ops[o].pc = "done"
        /\ ops[o].cause = "query" /\ ops[o].status = 500
        /\ ops[o].detail = <<"Database error: ", Str("CatalogException")>>

\* C6: an operation that finds no store file at its path fails at acquisition
\* with the connection error, runs no query and leaves the store missing; at
\* the HTTP boundary it answers 500.
C6_MissingStoreIsConnectionError ==
    \A o \in Ops :
        (Scoped(o) /\ ops[o].seen = "missing")
        => /\ ops[o].conn = NoConn
           /\ ops[o].cause = "open"
           /\ ops[o].exc = "IOException"
           /\ store[ops[o].path] = "missing"
           /\ (ops[o].kind = "get_data" /\ ops[o].pc = "done") => ops[o].status = 500

FailureCauses == {"open", "query", "mapping"}

\* C7: with the store open and sensor_readings absent, get_sensor_readings
\* ends in the exception of the query (and get_data answers 500); operations
\* that failed at different points (open, query, mapping) ended in different
\* exception classes.
C7_QueryErrorDistinct ==
    /\ \A o \in Ops :
          (ops[o].pc = "done" /\ Acquired(o) /\ store[ops[o].path] # "table"
              /\ ops[o].exc # Cancelled)
          => /\ ops[o].cause = "query"
             /\ ops[o].exc = "CatalogException"
             /\ ops[o].kind = "get_data" => ops[o].status = 500
    /\ \A o1, o2 \in Ops :
          (ops[o1].pc = "done" /\ ops[o2].pc = "done"
              /\ ops[o1].kind \in {"get_sensor_readings", "process_data"}
              /\ ops[o2].kind \in {"get_sensor_readings", "process_data"}
              /\ ops[o1].cause \in FailureCauses /\ ops[o2].cause \in FailureCauses
              /\ ops[o1].cause # ops[o2].cause)
          => ops[o1].exc # ops[o2].exc

\* the table is absent for one operation while process_data fails for another
C7_Witness ==
    \E o1, o2 \in Ops :
        /\ ops[o1].kind = "get_sensor_readings" /\ ops[o1].pc = "done"
        /\ ops[o1].cause = "query"
        /\ ops[o2].kind = "process_data" /\ ops[o2].pc = "done"
        /\ ops[o2].cause = "mapping"

\* C8: the path an operation opens is its db_path argument when one is given,
\* otherwise DATABASE_PATH when set, otherwise my_geospatial_data.duckdb.
C8_PathPrecedence ==
    \A o \in Ops :
        (Scoped(o) /\ ops[o].pc # "idle")
        => LET expected == IF ops[o].db_path # None THEN ops[o].db_path
                           ELSE IF env # None THEN env
                           ELSE "my_geospatial_data.duckdb"
           IN  /\ ops[o].path = expected
               /\ ops[o].conn # NoConn => conns[ops[o].conn].path = expected

\* argument and environment variable both set: the argument's store is opened
C8_Witness ==
    \E o \in Ops :
        /\ Acquired(o) /\ env = EnvPath /\ ops[o].db_path = ArgPath
        /\ conns[ops[o].conn].path = ArgPath

\* C9 (as stated): no connection has two users, and none is still open once an
\* operation that used it has ended.
C9_NoConnectionShared ==
    \A c \in DOMAIN conns :
        /\ Cardinality(conns[c].users) <= 1
        /\ \A o \in conns[c].users : ops[o].pc = "done" => ~conns[c].open

\* C9 (amended): an operation that is not handed a connection opens a fresh
\* one, which no other operation ever uses and which is closed when the
\* operation has ended.
C9_ScopedConnectionsNotShared ==
    /\ \A c \in DOMAIN conns :
          conns[c].scoped
          => /\ conns[c].users \subseteq {conns[c].owner}
             /\ ops[conns[c].owner].conn = c
    /\ \A o1, o2 \in Ops :
          (o1 # o2 /\ Acquired(o1) /\ Acquired(o2)) => ops[o1].conn # ops[o2].conn
    /\ \A o \in Ops :
          (Acquired(o) /\ Finished(o)) => ~conns[ops[o].conn].open

\* two operations on the same store at once, each inside its with block
C9_Witness ==
    \E o1, o2 \in Ops :
        /\ o1 # o2 /\ Acquired(o1) /\ Acquired(o2)
        /\ ops[o1].path = ops[o2].path
        /\ ops[o1].pc = "finally" /\ ops[o2].pc = "yield"
        /\ conns[ops[o1].conn].users = {o1}

\* C10: once an operation has left its with block (return, exception raised
\* inside the block, cancellation) its connection is closed, and when
\* duckdb.connect failed close was never called on None.
C10_FinishedMeansClosed ==
    \A o \in Ops :
        (Scoped(o) /\ Finished(o))
        => /\ ops[o].conn # NoConn => ~conns[ops[o].conn].open
           /\ ~ops[o].noneClose
           /\ ops[o].conn = NoConn => \A c \in DOMAIN conns : conns[c].owner # o

\* one operation cancelled inside its block, another whose connect failed
C10_Witness ==
    \E o1, o2 \in Ops :
        /\ ops[o1].pc = "done" /\ ops[o1].exc = Cancelled
        /\ ~conns[ops[o1].conn].open
        /\ ops[o2].pc = "done" /\ Scoped(o2) /\ ops[o2].cause = "open"

====
